---- MODULE Spec2Model ----
(***************************************************************************)
(* Loop subdivision engine of meshObject (src/source/meshObject.cpp).      *)
(*                                                                         *)
(* Numbers.  A float is modelled as a dyadic rational <<n, e>> standing    *)
(* for n / 2^e, kept in lowest terms, as NaN, or as Irr (finite, value not *)
(* tracked: a component of a normalised oblique vector).  The weights     *)
(* the code                                                                *)
(* uses (1/2, 3/8, 1/8, 6/8, 3/16) are dyadic, so the arithmetic of a pass *)
(* is exact; rounding to 24 bits is not modelled.                          *)
(* Indices are the code's 0-based unsigned ints; element i of a vector is  *)
(* element i+1 of the sequence that models it.                             *)
(***************************************************************************)
EXTENDS Integers, Sequences, FiniteSets, TLC

\* ------------------------------------------------------------------ bounds
MaxLevel == 1          \* largest level passed to setSubdivisionLevel
MaxTransforms == 1     \* translate/rotate calls composed into modelMatrix
MaxTris == 2           \* triangles of an enumerated pass input
NumVerts == 3          \* vertex indices of an enumerated pass input
MaxEdgeIdx == 2        \* largest vertex index of an enumerated Edge
MaxCount == 2          \* cap of the counter of a key of the Edge map
MaxKeys == 2           \* cap of the number of keys of the Edge map

\* --------------------------------------------------------- float arithmetic
NaN == <<0, -1>>
IsNaN(a) == a[2] = 0 - 1
\* a finite float whose value is irrational and therefore not tracked
Irr == <<0, -2>>
IsIrr(a) == a[2] = 0 - 2

RECURSIVE Pow2(_)
Pow2(k) == IF k = 0 THEN 1 ELSE 2 * Pow2(k - 1)

RECURSIVE Norm(_, _)
Norm(n, e) == IF e > 0 /\ n % 2 = 0 THEN Norm(n \div 2, e - 1) ELSE <<n, e>>

Int2F(n) == <<n, 0>>
Zero == Int2F(0)
One == Int2F(1)

Max(a, b) == IF a < b THEN b ELSE a
Min(a, b) == IF b < a THEN b ELSE a

SAdd(a, b) ==
    IF IsNaN(a) \/ IsNaN(b) THEN NaN
    ELSE IF IsIrr(a) \/ IsIrr(b) THEN Irr
    ELSE LET E == Max(a[2], b[2])
         IN  Norm(a[1] * Pow2(E - a[2]) + b[1] * Pow2(E - b[2]), E)

SNeg(a) == IF a[2] < 0 THEN a ELSE <<0 - a[1], a[2]>>
SSub(a, b) == SAdd(a, SNeg(b))

SMul(a, b) ==
    IF IsNaN(a) \/ IsNaN(b) THEN NaN
    ELSE IF IsIrr(a) \/ IsIrr(b)
    THEN (IF a[1] = 0 /\ b[1] = 0 /\ (a[2] >= 0 \/ b[2] >= 0) THEN <<0, 0>> ELSE Irr)
    ELSE Norm(a[1] * b[1], a[2] + b[2])


\* A std::vector or glm vector holds values: Vector(f) is the sequence of
\* the values f[1], f[2], ...
Vector(f) == f \o <<>>

\* glm vectors: sequences of floats, operations componentwise
VAdd(a, b) == Vector([i \in DOMAIN a |-> SAdd(a[i], b[i])])
VSub(a, b) == Vector([i \in DOMAIN a |-> SSub(a[i], b[i])])
VScale(w, a) == Vector([i \in DOMAIN a |-> SMul(w, a[i])])
VHasNaN(a) == \E i \in DOMAIN a : IsNaN(a[i])
VIsZero(a) == \A i \in DOMAIN a : a[i] = Zero
Vec3(x, y, z) == <<Int2F(x), Int2F(y), Int2F(z)>>
Vec2(u, v) == <<Int2F(u), Int2F(v)>>
Zero3 == Vec3(0, 0, 0)
Zero2 == Vec2(0, 0)
NaN3 == <<NaN, NaN, NaN>>

\* the weights of the subdivision rules
Half == <<1, 1>>
W38 == <<3, 3>>
W18 == <<1, 3>>
W68 == <<3, 2>>

\* ------------------------------------------------------------------- Edge
\* struct Edge { unsigned int v1, v2; } is the pair <<v1, v2>>
EdgeLessUnnormalized(e, other) ==
    IF e[1] # other[1] THEN e[1] < other[1] ELSE e[2] < other[2]

EdgeLess(e, other) ==
    LET min1 == Min(e[1], e[2])
        max1 == Max(e[1], e[2])
        min2 == Min(other[1], other[2])
        max2 == Max(other[1], other[2])
    IN  IF min1 # min2 THEN min1 < min2 ELSE max1 < max2

\* the equivalence std::map and std::set derive from the comparator
EdgeEquiv(a, b) == ~EdgeLess(a, b) /\ ~EdgeLess(b, a)

\* std::map<Edge, T>: the sequence of <<key, value>> in key order
FirstOf(S) == IF S = {} THEN 0 ELSE CHOOSE i \in S : \A j \in S : i <= j
MapFind(m, k) == FirstOf({i \in 1..Len(m) : EdgeEquiv(m[i][1], k)})

MapLowerBound(m, k) == 1 + Cardinality({i \in 1..Len(m) : EdgeLess(m[i][1], k)})

InsertAt(s, p, x) == SubSeq(s, 1, p - 1) \o <<x>> \o SubSeq(s, p, Len(s))

\* m[k]++, a missing key being value-initialised to 0 first
MapIncrement(m, k) ==
    LET p == MapFind(m, k)
    IN  IF p # 0 THEN [m EXCEPT ![p] = <<@[1], @[2] + 1>>]
        ELSE InsertAt(m, MapLowerBound(m, k), <<k, 0 + 1>>)

\* std::set<Edge>::count on the sequence of keys in order
EdgeSetCount(s, k) == \E i \in 1..Len(s) : EdgeEquiv(s[i], k)

\* ------------------------------------------------------ adjacency builder
\* The loop over the triangles and their three directed edges visits, in this
\* order, the triples <<v0, v1, v_opposite>>.
DirectedEdges(inds) ==
    Vector([q \in 1..Len(inds) |->
        LET t == (q - 1) \div 3
            j == (q - 1) % 3
        IN  <<inds[3 * t + 1 + j], inds[3 * t + 1 + ((j + 1) % 3)],
              inds[3 * t + 1 + ((j + 2) % 3)]>>])

EdgeOf(d) == <<d[1], d[2]>>

\* a variant in which every directed edge gets a key of its own
MapKeysNoMerge(D) == Vector([q \in 1..Len(D) |-> EdgeOf(D[q])])

\* The keys a std::map<Edge, T> holds after operator[] was applied to the
\* edges of D in order: the first edge of every equivalence class of the
\* comparator, in the comparator's order.
FirstInserts(D) ==
    {q \in 1..Len(D) : \A r \in 1..(q - 1) : ~EdgeEquiv(EdgeOf(D[r]), EdgeOf(D[q]))}
KeyRanks(D, first) ==
    Vector([q \in 1..Len(D) |->
        IF q \in first
        THEN 1 + Cardinality({r \in first : EdgeLess(EdgeOf(D[r]), EdgeOf(D[q]))})
        ELSE 0])
KeysInOrder(D, first, rank) ==
    Vector([p \in 1..Cardinality(first) |->
        EdgeOf(D[CHOOSE q \in first : rank[q] = p])])
MapKeys(D) == KeysInOrder(D, FirstInserts(D), KeyRanks(D, FirstInserts(D)))

\* edgeFaceCount[edge]++ over all directed edges
EdgeFaceCount(D, keys) ==
    Vector([p \in 1..Len(keys) |->
        <<keys[p], Cardinality({r \in 1..Len(D) : EdgeEquiv(EdgeOf(D[r]), keys[p])})>>])

\* edgeOppositeVertices[edge].push_back(v_opposite) over all directed edges
OppositeOf(hits) == Vector([i \in 1..Len(hits) |-> hits[i][3]])
EdgeOppositeVertices(D, keys) ==
    Vector([p \in 1..Len(keys) |->
        LET isKey(d) == EdgeEquiv(EdgeOf(d), keys[p])
        IN  <<keys[p], OppositeOf(SelectSeq(D, isKey))>>])

\* vertexNeighbors[v0].insert(v1); vertexNeighbors[v1].insert(v0)
VertexNeighbors(D) ==
    [v \in {D[r][1] : r \in 1..Len(D)} \cup {D[r][2] : r \in 1..Len(D)} |->
        {D[r][2] : r \in {x \in 1..Len(D) : D[x][1] = v}} \cup
        {D[r][1] : r \in {x \in 1..Len(D) : D[x][2] = v}}]

\* vertexNeighbors[i], which creates an empty set for an absent key
Neighbors(vn, i) == IF i \in DOMAIN vn THEN vn[i] ELSE {}

AdjacencyMaps(D, keys) ==
    [edgeFaceCount |-> EdgeFaceCount(D, keys),
     edgeOppositeVertices |-> EdgeOppositeVertices(D, keys),
     vertexNeighbors |-> VertexNeighbors(D)]
BuildAdjacency(inds) == AdjacencyMaps(DirectedEdges(inds), MapKeys(DirectedEdges(inds)))

\* the keys of edgeFaceCount with count 1, in map order
KeysOf(m) == Vector([i \in 1..Len(m) |-> m[i][1]])
BoundaryEdges(edgeFaceCount) ==
    LET keep(p) == p[2] = 1
    IN  KeysOf(SelectSeq(edgeFaceCount, keep))

BoundaryVertices(boundaryEdges) ==
    {boundaryEdges[i][1] : i \in 1..Len(boundaryEdges)} \cup
    {boundaryEdges[i][2] : i \in 1..Len(boundaryEdges)}

\* ------------------------------------------------------- subdivision rules
\* float beta of the interior rule; k == 0 gives (1/0) * (.. cos(inf) ..) = NaN.
\* Exact where cos(2 pi / k) is rational (k = 1, 2, 4, 6), otherwise the value
\* rounded to a multiple of 1/256.
BetaTable == <<60, 78, 48, 31, 22, 16, 13, 10, 9, 7, 7, 6>>
Beta(k) ==
    IF k = 3 THEN <<3, 4>>
    ELSE IF k = 0 THEN NaN
    ELSE IF k <= 12 THEN Norm(BetaTable[k], 8)
    ELSE Norm(60 \div k, 8)

RECURSIVE SetToSeq(_)
SetToSeq(S) ==
    IF S = {} THEN <<>>
    ELSE LET x == CHOOSE y \in S : \A z \in S : y <= z
         IN  <<x>> \o SetToSeq(S \ {x})

RECURSIVE VSum(_, _)
VSum(vals, zero) ==
    IF vals = <<>> THEN zero ELSE VAdd(VSum(SubSeq(vals, 1, Len(vals) - 1), zero),
                                       vals[Len(vals)])

\* vec[i], an out-of-range read giving the value g
At(vec, i, g) == IF i < Len(vec) THEN vec[i + 1] ELSE g

\* a variant that gives every edge the average of its two ends
EdgeRuleAverage(edge, opposites, boundaryEdges, vec, g) ==
    VScale(Half, VAdd(At(vec, edge[1], g), At(vec, edge[2], g)))

\* Step 1, the value of the new vertex of one edge, read from the old buffer
\* vec; g is what a read past its end returns
EdgeRule(edge, opposites, boundaryEdges, vec, g) ==
    LET A(i) == At(vec, i, g)
        v0 == edge[1]
        v1 == edge[2]
    IN  IF EdgeSetCount(boundaryEdges, edge)
        THEN VScale(Half, VAdd(A(v0), A(v1)))
        ELSE IF Len(opposites) = 2
        THEN VAdd(VScale(W38, VAdd(A(v0), A(v1))),
                  VScale(W18, VAdd(A(opposites[1]), A(opposites[2]))))
        ELSE VScale(Half, VAdd(A(v0), A(v1)))

\* a variant that leaves every boundary vertex where it is
BoundaryVertexRuleKeep(i, boundaryNeighbors, vec, g) == At(vec, i, g)

\* Step 2 for a boundary vertex i with the neighbours reached over boundary
\* edges; vec is the old buffer and g what a read past its end returns
BoundaryVertexRule(i, boundaryNeighbors, vec, g) ==
    IF Len(boundaryNeighbors) = 2
    THEN VAdd(VAdd(VScale(W18, At(vec, boundaryNeighbors[1], g)),
                   VScale(W68, At(vec, i, g))),
              VScale(W18, At(vec, boundaryNeighbors[2], g)))
    ELSE At(vec, i, g)

\* Step 2 for an interior vertex i with k neighbours
InteriorVertexRule(i, neighbors, k, beta, zero, vec, g) ==
    VAdd(VScale(SSub(One, SMul(Int2F(k), beta)), At(vec, i, g)),
         VScale(beta, VSum(Vector([j \in 1..k |-> At(vec, neighbors[j], g)]), zero)))

\* Step 2, the new value of original vertex i; neighbors is vertexNeighbors[i]
\* in the order of the std::set
VertexRule(i, neighbors, boundaryEdges, boundaryVertices, zero, vec, g) ==
    LET isB(n) == EdgeSetCount(boundaryEdges, <<i, n>>)
    IN  IF i \in boundaryVertices
        THEN BoundaryVertexRule(i, SelectSeq(neighbors, isB), vec, g)
        ELSE InteriorVertexRule(i, neighbors, Len(neighbors), Beta(Len(neighbors)),
                                zero, vec, g)

\* a variant that emits the third corner triangle with a wrong midpoint
FaceIndicesSwapped(v0, v1, v2, m01, m12, m20) ==
    <<v0, m01, m20, v1, m12, m01, v2, m20, m01, m01, m12, m20>>

\* Step 3, the twelve indices pushed for one input triangle
FaceIndices(v0, v1, v2, m01, m12, m20) ==
    <<v0, m01, m20, v1, m12, m01, v2, m20, m12, m01, m12, m20>>

\* edgeMidpointIndices.at(key): 0 - 1 stands for the std::out_of_range throw
ValueAt(m, p) == IF p = 0 THEN 0 - 1 ELSE m[p][2]
MapAt(m, k) == ValueAt(m, MapFind(m, k))

\* nextVertices or nextUvs after Steps 1 and 2: n updated original entries,
\* then one entry per edge in map order.  vec is the old buffer and g what a
\* read past its end returns.
NextBuffer(vec, g, zero, n, adj, boundaryEdges, boundaryVertices) ==
    Vector([q \in 1..(n + Len(adj.edgeOppositeVertices)) |->
        IF q <= n
        THEN VertexRule(q - 1, SetToSeq(Neighbors(adj.vertexNeighbors, q - 1)),
                        boundaryEdges, boundaryVertices, zero, vec, g)
        ELSE EdgeRule(adj.edgeOppositeVertices[q - n][1],
                      adj.edgeOppositeVertices[q - n][2], boundaryEdges, vec, g)])

\* a variant that numbers the new vertices from originalVertexCount + 1
EdgeMidpointIndicesShifted(edgeOppositeVertices, originalVertexCount) ==
    Vector([p \in 1..Len(edgeOppositeVertices) |->
        <<edgeOppositeVertices[p][1], originalVertexCount + p>>])

\* edgeMidpointIndices[edge] = currentNewVertexIndex++ in map order
EdgeMidpointIndices(edgeOppositeVertices, originalVertexCount) ==
    Vector([p \in 1..Len(edgeOppositeVertices) |->
        <<edgeOppositeVertices[p][1], originalVertexCount + p - 1>>])

\* a variant that walks the input triangles from the last to the first
FacesLastFirst(inds, edgeMidpointIndices) ==
    Vector([u \in 1..(Len(inds) \div 3) |->
        LET t == (Len(inds) \div 3) + 1 - u
        IN  FaceIndices(inds[3 * t - 2], inds[3 * t - 1], inds[3 * t],
                    MapAt(edgeMidpointIndices, <<inds[3 * t - 2], inds[3 * t - 1]>>),
                    MapAt(edgeMidpointIndices, <<inds[3 * t - 1], inds[3 * t]>>),
                    MapAt(edgeMidpointIndices, <<inds[3 * t], inds[3 * t - 2]>>))])

\* Step 3: the twelve indices of every input triangle
Faces(inds, edgeMidpointIndices) ==
    Vector([t \in 1..(Len(inds) \div 3) |->
        FaceIndices(inds[3 * t - 2], inds[3 * t - 1], inds[3 * t],
                    MapAt(edgeMidpointIndices, <<inds[3 * t - 2], inds[3 * t - 1]>>),
                    MapAt(edgeMidpointIndices, <<inds[3 * t - 1], inds[3 * t]>>),
                    MapAt(edgeMidpointIndices, <<inds[3 * t], inds[3 * t - 2]>>))])

\* nextIndices, and whether one of the .at calls threw
NextIndices(faces) ==
    [indices |-> Vector([q \in 1..(12 * Len(faces)) |->
                     faces[((q - 1) \div 12) + 1][((q - 1) % 12) + 1]]),
     threw |-> \E t \in 1..Len(faces) : \E j \in 1..12 : faces[t][j] < 0]

PassResult(nextVertices, nextUvs, next) ==
    [vertices |-> nextVertices, uvs |-> nextUvs, indices |-> next.indices,
     threw |-> next.threw]

\* Steps 1 to 3 on the mesh m with the adjacency maps adj and the boundary
\* edges.  g = [pos, uv] is what a read past the end of a buffer returns.
SubdivideSteps(m, g, adj, boundaryEdges) ==
    PassResult(
        NextBuffer(m.vertices, g.pos, Zero3, Len(m.vertices), adj, boundaryEdges,
                   BoundaryVertices(boundaryEdges)),
        NextBuffer(m.uvs, g.uv, Zero2, Len(m.vertices), adj, boundaryEdges,
                   BoundaryVertices(boundaryEdges)),
        NextIndices(Faces(m.indices,
            EdgeMidpointIndices(adj.edgeOppositeVertices, Len(m.vertices)))))

WithBoundary(m, g, adj) == SubdivideSteps(m, g, adj, BoundaryEdges(adj.edgeFaceCount))

\* One level of Loop subdivision of the mesh m = [vertices, uvs, indices]
applyLoopSubdivision(m, g) == WithBoundary(m, g, BuildAdjacency(m.indices))

\* ------------------------------------------------------ calculateNormals
Cross(a, b) ==
    <<SSub(SMul(a[2], b[3]), SMul(a[3], b[2])),
      SSub(SMul(a[3], b[1]), SMul(a[1], b[3])),
      SSub(SMul(a[1], b[2]), SMul(a[2], b[1]))>>

\* glm::normalize(v) = v * inversesqrt(dot(v, v)).  The zero vector gives
\* 0 * inf = NaN in every component.  A vector along one axis gives the signed
\* unit vector of that axis; any other direction has irrational components.
Normalize(v) ==
    LET nz == {i \in DOMAIN v : v[i] # <<0, 0>>}
    IN  IF VHasNaN(v) \/ nz = {} THEN Vector([i \in DOMAIN v |-> NaN])
        ELSE IF Cardinality(nz) = 1 /\ \A i \in nz : v[i][2] >= 0
        THEN Vector([i \in DOMAIN v |->
                 IF v[i][1] > 0 THEN <<1, 0>>
                 ELSE IF v[i][1] < 0 THEN <<0 - 1, 0>> ELSE <<0, 0>>])
        ELSE Vector([i \in DOMAIN v |-> IF v[i] = <<0, 0>> THEN <<0, 0>> ELSE Irr])

\* what one triangle adds to the normals of its three vertices
FaceNormal(v0, v1, v2) == Normalize(Cross(VSub(v1, v0), VSub(v2, v0)))

\* the faceNormal of every triangle; g is what a read past the end of verts
\* returns
FaceNormals(verts, inds, g) ==
    Vector([t \in 1..(Len(inds) \div 3) |->
        FaceNormal(At(verts, inds[3 * t - 2], g),
                   At(verts, inds[3 * t - 1], g),
                   At(verts, inds[3 * t], g))])

\* norms after the first loop: every vertex has the sum of the faceNormal of
\* the corners that name it; a write past the end of norms is dropped
SumAtCorners(faceNormal, corners) ==
    VSum(Vector([c \in 1..Len(corners) |->
             faceNormal[((corners[c] - 1) \div 3) + 1]]), Zero3)
AccumulateNormals(faceNormal, inds, n) ==
    Vector([q \in 1..n |->
        SumAtCorners(faceNormal,
            SetToSeq({c \in 1..(3 * Len(faceNormal)) : inds[c] = q - 1}))])

\* the second loop: norms[i] = glm::normalize(norms[i])
NormalizeAll(norms) == Vector([q \in 1..Len(norms) |-> Normalize(norms[q])])

calculateNormals(verts, inds, g) ==
    NormalizeAll(AccumulateNormals(FaceNormals(verts, inds, g), inds, Len(verts)))

\* --------------------------------------------------------------- the object
VARIABLES
    vertices, uvs, normals, indices, numIndices,      \* mesh loaded from OBJ
    smoothVertices, smoothUvs, smoothNormals, smoothIndices, numSmoothIndices,
    subdivisionLevel, showSmooth, showWireframe, showTexture, modelMatrix,
    gpuSmooth,     \* contents of the smooth VBOs/EBO after the last glBufferData
    loaded,        \* the two-argument constructor ran and loadOBJ returned true
    crashed,       \* the process terminated inside a call
    trace,         \* the steps of the last setSubdivisionLevel/toggleSmooth call
    lastCall,      \* that call: [op, arg]
    edgeMap,       \* a std::map<Edge, int> filled by operator[]
    passIn, passOut, \* a mesh handed to applyLoopSubdivision and its result
    passNormals      \* the norms calculateNormals gives for that mesh

baseVars == <<vertices, uvs, normals, indices, numIndices>>
smoothVars == <<smoothVertices, smoothUvs, smoothNormals, smoothIndices,
                numSmoothIndices>>
viewVars == <<showSmooth, showWireframe, showTexture, modelMatrix>>
objVars == <<baseVars, smoothVars, subdivisionLevel, viewVars, gpuSmooth,
             loaded, crashed, trace, lastCall>>
harnessVars == <<edgeMap, passIn, passOut, passNormals>>
vars == <<objVars, harnessVars>>

targetSubdivisionLevel == 2

\* the object as one value; ub and threw are filled in by the methods
Self ==
    [vertices |-> vertices, uvs |-> uvs, normals |-> normals,
     indices |-> indices, numIndices |-> numIndices,
     smoothVertices |-> smoothVertices, smoothUvs |-> smoothUvs,
     smoothNormals |-> smoothNormals, smoothIndices |-> smoothIndices,
     numSmoothIndices |-> numSmoothIndices,
     subdivisionLevel |-> subdivisionLevel, showSmooth |-> showSmooth,
     showWireframe |-> showWireframe, showTexture |-> showTexture,
     modelMatrix |-> modelMatrix, gpuSmooth |-> gpuSmooth,
     trace |-> trace, ub |-> FALSE, threw |-> FALSE]

SmoothMesh(self) ==
    [vertices |-> self.smoothVertices, uvs |-> self.smoothUvs,
     indices |-> self.smoothIndices]
BaseMesh(self) ==
    [vertices |-> self.vertices, uvs |-> self.uvs, indices |-> self.indices]

\* every index addresses a vertex, and there is one uv per vertex
IndexValid(m) == \A q \in 1..Len(m.indices) : m.indices[q] < Len(m.vertices)
WellFormed(m) == IndexValid(m) /\ Len(m.uvs) = Len(m.vertices)

\* applyLoopSubdivision reads smoothVertices[v] and smoothUvs[v] for every
\* index v of the triangle list and smoothUvs[i] for every vertex i
PassReadsPastEnd(m) ==
    \/ \E q \in 1..Len(m.indices) :
          m.indices[q] >= Len(m.vertices) \/ m.indices[q] >= Len(m.uvs)
    \/ Len(m.uvs) < Len(m.vertices)

\* calculateNormals reads verts[i] and writes norms[i] for every index i
NormalsPastEnd(verts, inds) == \E q \in 1..Len(inds) : inds[q] >= Len(verts)

Event(o, self, ok) == [op |-> o, level |-> self.subdivisionLevel, valid |-> ok]

\* a variant of the upload that leaves the element buffer as it was
setupSmoothBuffersKeepElements(self) ==
    [self EXCEPT
        !.gpuSmooth = [vertices |-> self.smoothVertices, uvs |-> self.smoothUvs,
                       normals |-> self.smoothNormals,
                       indices |-> self.gpuSmooth.indices],
        !.trace = Append(@, Event("upload", self, TRUE))]

\* setupSmoothBuffers: the uv and normal buffers are created only when the
\* vectors are not empty
setupSmoothBuffers(self) ==
    [self EXCEPT
        !.gpuSmooth = [vertices |-> self.smoothVertices, uvs |-> self.smoothUvs,
                       normals |-> self.smoothNormals,
                       indices |-> self.smoothIndices],
        !.trace = Append(@, Event("upload", self, TRUE))]

\* the end of applyLoopSubdivision, which moves the result r of the pass on m
\* into the smooth vectors, and subdivisionLevel++
MoveResult(self, m, r) ==
        IF r.threw
        THEN [self EXCEPT !.threw = TRUE,
                          !.ub = @ \/ PassReadsPastEnd(m),
                          !.trace = Append(@, Event("pass", self, WellFormed(m)))]
        ELSE [self EXCEPT
                 !.smoothVertices = r.vertices,
                 !.smoothUvs = r.uvs,
                 !.smoothIndices = r.indices,
                 !.subdivisionLevel = @ + 1,
                 !.ub = @ \/ PassReadsPastEnd(m),
                 !.trace = Append(@, Event("pass", self, WellFormed(m)))]

\* one iteration of the while loop: applyLoopSubdivision(); subdivisionLevel++
SubdivideOnce(self, g) ==
    MoveResult(self, SmoothMesh(self), applyLoopSubdivision(SmoothMesh(self), g))

\* a variant of the loop that runs while subdivisionLevel <= level
RECURSIVE SubdivideLoopInclusive(_, _, _)
SubdivideLoopInclusive(self, level, g) ==
    IF self.subdivisionLevel <= level /\ ~self.threw
    THEN SubdivideLoopInclusive(SubdivideOnce(self, g), level, g)
    ELSE self

\* while (subdivisionLevel < level) { ... }
RECURSIVE SubdivideLoop(_, _, _)
SubdivideLoop(self, level, g) ==
    IF self.subdivisionLevel < level /\ ~self.threw
    THEN SubdivideLoop(SubdivideOnce(self, g), level, g)
    ELSE self

\* variants of the reset with one assignment changed
ResetToBaseKeepVertices(self) ==
    [self EXCEPT
        !.smoothUvs = self.uvs,
        !.smoothNormals = self.normals,
        !.smoothIndices = self.indices,
        !.subdivisionLevel = 0,
        !.trace = Append(@, Event("reset", self, TRUE))]
ResetToBaseKeepUvs(self) ==
    [self EXCEPT
        !.smoothVertices = self.vertices,
        !.smoothNormals = self.normals,
        !.smoothIndices = self.indices,
        !.subdivisionLevel = 0,
        !.trace = Append(@, Event("reset", self, TRUE))]
ResetToBaseMove(self) ==
    [self EXCEPT
        !.smoothVertices = self.vertices,
        !.smoothUvs = self.uvs,
        !.smoothNormals = self.normals,
        !.smoothIndices = self.indices,
        !.vertices = <<>>,
        !.subdivisionLevel = 0,
        !.trace = Append(@, Event("reset", self, TRUE))]

\* the body of if (level < subdivisionLevel)
ResetToBase(self) ==
    [self EXCEPT
        !.smoothVertices = self.vertices,
        !.smoothUvs = self.uvs,
        !.smoothNormals = self.normals,
        !.smoothIndices = self.indices,
        !.subdivisionLevel = 0,
        !.trace = Append(@, Event("reset", self, TRUE))]

\* calculateNormals(smoothVertices, smoothIndices, smoothNormals)
RecalculateNormals(self, g) ==
    [self EXCEPT
        !.smoothNormals =
            calculateNormals(self.smoothVertices, self.smoothIndices, g.pos),
        !.ub = @ \/ NormalsPastEnd(self.smoothVertices, self.smoothIndices),
        !.trace = Append(@, Event("normals", self,
                      ~NormalsPastEnd(self.smoothVertices, self.smoothIndices)))]

\* numSmoothIndices = smoothIndices.size()
CountIndices(self) == [self EXCEPT !.numSmoothIndices = Len(self.smoothIndices)]

\* a variant that uploads the buffers before the normals are recalculated
AfterLoopUploadFirst(looped, g) ==
    IF looped.threw THEN looped
    ELSE RecalculateNormals(setupSmoothBuffers(CountIndices(looped)), g)

\* what follows the while loop; an exception thrown in the loop skips it
AfterLoop(looped, g) ==
    IF looped.threw THEN looped
    ELSE setupSmoothBuffers(CountIndices(RecalculateNormals(looped, g)))

\* setSubdivisionLevel after the early return; level is already clamped
ChangeLevel(self, level, g) ==
    AfterLoop(SubdivideLoop(IF level < self.subdivisionLevel
                            THEN ResetToBase(self) ELSE self, level, g), g)

\* a variant without the clamp of a negative level
setSubdivisionLevelNoClamp(self, lvl, g) ==
    IF lvl = self.subdivisionLevel THEN self ELSE ChangeLevel(self, lvl, g)

setSubdivisionLevel(self, lvl, g) ==
    LET level == IF lvl < 0 THEN 0 ELSE lvl
    IN  IF level = self.subdivisionLevel THEN self ELSE ChangeLevel(self, level, g)

\* a variant that goes back to the base mesh when smooth is turned off
toggleSmoothOffResets(self, g) ==
    LET flipped == [self EXCEPT !.showSmooth = ~@]
    IN  IF flipped.showSmooth /\ flipped.subdivisionLevel < targetSubdivisionLevel
        THEN setSubdivisionLevel(flipped, targetSubdivisionLevel, g)
        ELSE setSubdivisionLevel(flipped, 0, g)

toggleSmooth(self, g) ==
    LET flipped == [self EXCEPT !.showSmooth = ~@]
    IN  IF flipped.showSmooth /\ flipped.subdivisionLevel < targetSubdivisionLevel
        THEN setSubdivisionLevel(flipped, targetSubdivisionLevel, g)
        ELSE flipped

toggleWireframe(self) == [self EXCEPT !.showWireframe = ~@]
toggleTexture(self) == [self EXCEPT !.showTexture = ~@]

\* modelMatrix is the sequence of the transforms multiplied onto the identity
translate(self, translation) ==
    [self EXCEPT !.modelMatrix =
        Append(@, [op |-> "translate", by |-> translation, angle |-> 0])]
rotate(self, angle, axis) ==
    [self EXCEPT !.modelMatrix =
        Append(@, [op |-> "rotate", by |-> axis, angle |-> angle])]

\* ------------------------------------------------------------ sample meshes
Up3 == Vec3(0, 0, 1)

\* a tetrahedron: closed, 4 vertices, 4 triangles, 6 edges
Tetra ==
    [vertices |-> <<Vec3(0, 0, 0), Vec3(1, 0, 0), Vec3(0, 1, 0), Vec3(0, 0, 1)>>,
     uvs |-> <<Vec2(0, 0), Vec2(1, 0), Vec2(0, 1), Vec2(1, 1)>>,
     indices |-> <<0, 2, 1, 0, 1, 3, 1, 2, 3, 2, 0, 3>>]
\* a quad split along the diagonal 0-2: 4 vertices, 2 triangles, 5 edges
Quad ==
    [vertices |-> <<Vec3(0, 0, 0), Vec3(1, 0, 0), Vec3(1, 1, 0), Vec3(0, 1, 0)>>,
     uvs |-> <<Vec2(0, 0), Vec2(1, 0), Vec2(1, 1), Vec2(0, 1)>>,
     indices |-> <<0, 1, 2, 0, 2, 3>>]
\* one triangle and a fourth vertex that no triangle references
TriExtra ==
    [vertices |-> <<Vec3(0, 0, 0), Vec3(2, 0, 0), Vec3(0, 2, 0), Vec3(3, 3, 0)>>,
     uvs |-> <<Vec2(0, 0), Vec2(1, 0), Vec2(0, 1), Vec2(1, 1)>>,
     indices |-> <<0, 1, 2>>]
\* one triangle of area zero (three collinear vertices)
Sliver ==
    [vertices |-> <<Vec3(0, 0, 0), Vec3(1, 0, 0), Vec3(2, 0, 0)>>,
     uvs |-> <<Vec2(0, 0), Vec2(1, 0), Vec2(0, 1)>>,
     indices |-> <<0, 1, 2>>]
\* an OBJ file without vt lines: no uv for any vertex
NoUv ==
    [vertices |-> <<Vec3(0, 0, 0), Vec3(2, 0, 0), Vec3(0, 2, 0)>>,
     uvs |-> <<>>,
     indices |-> <<0, 1, 2>>]
\* a face that names a vertex the file does not define
BadIndex ==
    [vertices |-> <<Vec3(0, 0, 0), Vec3(2, 0, 0), Vec3(0, 2, 0)>>,
     uvs |-> <<Vec2(0, 0), Vec2(1, 0), Vec2(0, 1)>>,
     indices |-> <<0, 1, 3>>]
EmptyMesh == [vertices |-> <<>>, uvs |-> <<>>, indices |-> <<>>]

\* what a read past the end of a vector may return
Garbage == {[pos |-> Zero3, uv |-> Zero2], [pos |-> Vec3(1, 2, 3), uv |-> Vec2(5, 5)]}
Garbage1 == [pos |-> Zero3, uv |-> Zero2]
\* what an int member without initialiser may hold
Indeterminate == {0, 7}

\* loadOBJ: the return value and the four output vectors
Loaded(m) ==
    [res |-> TRUE, vertices |-> m.vertices, uvs |-> m.uvs,
     normals |-> [i \in 1..Len(m.vertices) |-> Up3] \o <<>>, indices |-> m.indices]
loadOBJ ==
    {Loaded(m) : m \in {Quad, TriExtra, Sliver, NoUv, BadIndex}} \cup
    {[res |-> FALSE, vertices |-> <<>>, uvs |-> <<>>, normals |-> <<>>,
      indices |-> <<>>],
     [Loaded(NoUv) EXCEPT !.res = FALSE]}

\* ----------------------------------------------------------- construction
NoPass == [ran |-> FALSE, vertices |-> <<>>, uvs |-> <<>>, indices |-> <<>>,
           threw |-> FALSE]
NoNormals == [ran |-> FALSE, normals |-> <<>>]
HarnessIdle ==
    /\ edgeMap = <<>>
    /\ passIn = EmptyMesh
    /\ passOut = NoPass
    /\ passNormals = NoNormals

NoBuffers == [vertices |-> <<>>, uvs |-> <<>>, normals |-> <<>>, indices |-> <<>>]

MembersDefault ==
    /\ showWireframe = FALSE
    /\ showSmooth = FALSE
    /\ showTexture = TRUE
    /\ subdivisionLevel = 0
    /\ modelMatrix = <<>>
    /\ crashed = FALSE
    /\ trace = <<>>
    /\ lastCall = [op |-> "ctor", arg |-> 0]

\* meshObject::meshObject()
DefaultCtor ==
    /\ MembersDefault
    /\ vertices = <<>> /\ uvs = <<>> /\ normals = <<>> /\ indices = <<>>
    /\ numIndices = 0
    /\ smoothVertices = <<>> /\ smoothUvs = <<>> /\ smoothNormals = <<>>
    /\ smoothIndices = <<>>
    /\ numSmoothIndices = 0
    /\ gpuSmooth = NoBuffers
    /\ loaded = FALSE

\* meshObject::meshObject(modelPath, texturePath)
LoadCtor ==
    \E o \in loadOBJ :
        /\ MembersDefault
        /\ vertices = o.vertices /\ uvs = o.uvs /\ normals = o.normals
        /\ indices = o.indices
        /\ loaded = o.res
        /\ IF o.res
           THEN /\ numIndices = Len(o.indices)
                /\ smoothVertices = o.vertices /\ smoothUvs = o.uvs
                /\ smoothNormals = o.normals /\ smoothIndices = o.indices
                /\ numSmoothIndices = Len(o.indices)
                /\ gpuSmooth = [vertices |-> o.vertices, uvs |-> o.uvs,
                                normals |-> o.normals, indices |-> o.indices]
           ELSE /\ numIndices \in Indeterminate
                /\ smoothVertices = <<>> /\ smoothUvs = <<>>
                /\ smoothNormals = <<>> /\ smoothIndices = <<>>
                /\ numSmoothIndices = 0
                /\ gpuSmooth = NoBuffers

Init == (DefaultCtor \/ LoadCtor) /\ HarnessIdle

\* ----------------------------------------------------------------- actions
Install(r) ==
    /\ vertices' = r.vertices /\ uvs' = r.uvs /\ normals' = r.normals
    /\ indices' = r.indices /\ numIndices' = r.numIndices
    /\ smoothVertices' = r.smoothVertices /\ smoothUvs' = r.smoothUvs
    /\ smoothNormals' = r.smoothNormals /\ smoothIndices' = r.smoothIndices
    /\ numSmoothIndices' = r.numSmoothIndices
    /\ subdivisionLevel' = r.subdivisionLevel
    /\ showSmooth' = r.showSmooth /\ showWireframe' = r.showWireframe
    /\ showTexture' = r.showTexture /\ modelMatrix' = r.modelMatrix
    /\ gpuSmooth' = r.gpuSmooth
    /\ trace' = r.trace
    /\ crashed' = r.threw
    /\ UNCHANGED <<loaded, harnessVars>>

\* a call that read or wrote past the end of a vector either ends the process
\* or goes on with whatever the read returned
Call(R, call) ==
    \E r0 \in {R[Garbage1]} :
        IF ~r0.ub THEN Install(r0) /\ lastCall' = call
        ELSE \/ /\ crashed' = TRUE
                /\ trace' = r0.trace
                /\ lastCall' = call
                /\ UNCHANGED <<baseVars, smoothVars, subdivisionLevel, viewVars,
                               gpuSmooth, loaded, harnessVars>>
             \/ \E g \in Garbage : Install(R[g]) /\ lastCall' = call

SetSubdivisionLevel(level) ==
    /\ ~crashed
    /\ LET R == [g \in Garbage |->
                    setSubdivisionLevel([Self EXCEPT !.trace = <<>>], level, g)]
       IN  Call(R, [op |-> "setSubdivisionLevel", arg |-> level])

ToggleSmooth ==
    /\ ~crashed
    /\ LET R == [g \in Garbage |-> toggleSmooth([Self EXCEPT !.trace = <<>>], g)]
       IN  Call(R, [op |-> "toggleSmooth", arg |-> 0])

ToggleWireframe ==
    /\ ~crashed
    /\ Install(toggleWireframe(Self))
    /\ UNCHANGED lastCall

ToggleTexture ==
    /\ ~crashed
    /\ Install(toggleTexture(Self))
    /\ UNCHANGED lastCall

Translate ==
    /\ ~crashed
    /\ Len(modelMatrix) < MaxTransforms
    /\ Install(translate(Self, <<0, 0, 3>>))
    /\ UNCHANGED lastCall

Rotate ==
    /\ ~crashed
    /\ Len(modelMatrix) < MaxTransforms
    /\ Install(rotate(Self, 90, <<0, 1, 0>>))
    /\ UNCHANGED lastCall

Next ==
    \/ \E level \in (0 - 1)..MaxLevel : SetSubdivisionLevel(level)
    \/ ToggleSmooth
    \/ ToggleWireframe
    \/ ToggleTexture
    \/ Translate
    \/ Rotate

Spec == Init /\ [][Next]_vars

\* ------------------------------------------- the Edge key in a std::map
\* edgeFaceCount[Edge{a, b}]++ on a map of its own
EdgeInsert(a, b) ==
    LET m == MapIncrement(edgeMap, <<a, b>>)
    IN  /\ Len(m) <= MaxKeys
        /\ \A i \in 1..Len(m) : m[i][2] <= MaxCount
        /\ edgeMap' = m
        /\ UNCHANGED <<objVars, passIn, passOut, passNormals>>

InitEdge == DefaultCtor /\ HarnessIdle
NextEdge == \E a, b \in 0..MaxEdgeIdx : EdgeInsert(a, b)
SpecEdge == InitEdge /\ [][NextEdge]_vars

\* --------------------------------- one subdivision pass on enumerated meshes
PassPos == <<Vec3(0, 0, 0), Vec3(2, 0, 0), Vec3(0, 2, 0), Vec3(2, 2, 0),
             Vec3(1, 3, 0), Vec3(3, 1, 0)>>
PassUv == <<Vec2(0, 0), Vec2(1, 0), Vec2(0, 1), Vec2(1, 1), Vec2(2, 0), Vec2(0, 2)>>

\* index triples: all of them, and those with three different corners
Triples == {<<a, b, c>> : a \in 0..(NumVerts - 1), b \in 0..(NumVerts - 1),
                          c \in 0..(NumVerts - 1)}
Triangles == {t \in Triples : t[1] # t[2] /\ t[2] # t[3] /\ t[1] # t[3]}
\* the index vectors of at most n triangles taken from tris
RECURSIVE TriLists(_, _)
TriLists(n, tris) ==
    IF n = 0 THEN {<<>>}
    ELSE LET shorter == TriLists(n - 1, tris)
         IN  shorter \cup {l \o t : l \in {x \in shorter : Len(x) = 3 * (n - 1)},
                                     t \in tris}
EnumMesh(inds) ==
    [vertices |-> SubSeq(PassPos, 1, NumVerts), uvs |-> SubSeq(PassUv, 1, NumVerts),
     indices |-> inds]

\* three triangles around the edge 0-1
Fan3 ==
    [vertices |-> SubSeq(PassPos, 1, 5), uvs |-> SubSeq(PassUv, 1, 5),
     indices |-> <<0, 1, 2, 0, 1, 3, 0, 1, 4>>]

\* up to MaxTris triangles, up to MaxTris - 1 triples that may repeat a corner
\* two triangles folded onto each other along the edge 0-2: the larger one
\* is counter-clockwise, the smaller one clockwise
Fold ==
    [vertices |-> SubSeq(PassPos, 1, 5), uvs |-> SubSeq(PassUv, 1, 5),
     indices |-> <<0, 1, 2, 0, 2, 4>>]

PassInputs ==
    {EnumMesh(l) : l \in TriLists(MaxTris, Triangles) \cup
                         TriLists(MaxTris - 1, Triples)} \cup
    {Tetra, Quad, TriExtra, Fan3, Fold}

InitPass ==
    /\ DefaultCtor
    /\ edgeMap = <<>>
    /\ passIn \in PassInputs
    /\ passOut = NoPass
    /\ passNormals = NoNormals

ApplyPass ==
    /\ ~passOut.ran
    /\ \E r \in {applyLoopSubdivision(passIn, Garbage1)} :
           passOut' = [ran |-> TRUE, vertices |-> r.vertices, uvs |-> r.uvs,
                       indices |-> r.indices, threw |-> r.threw]
    /\ UNCHANGED <<objVars, edgeMap, passIn, passNormals>>

\* calculateNormals(verts, inds, norms) on the vertices and indices of passIn
CalculateNormals ==
    /\ ~passNormals.ran
    /\ passNormals' =
           [ran |-> TRUE,
            normals |-> calculateNormals(passIn.vertices, passIn.indices, Zero3)]
    /\ UNCHANGED <<objVars, edgeMap, passIn, passOut>>

NextPass == ApplyPass \/ CalculateNormals
SpecPass == InitPass /\ [][NextPass]_vars

\* ==================================================================== claims
HasEvent(tr, o) == \E i \in 1..Len(tr) : tr[i].op = o
IsPass(ev) == ev.op = "pass"
Passes(tr) == SelectSeq(tr, IsPass)
StripPass(r) == [vertices |-> r.vertices, uvs |-> r.uvs, indices |-> r.indices]

\* the one-level pass applied n times to the mesh m
RECURSIVE SubdivideN(_, _)
SubdivideN(m, n) ==
    IF n = 0 THEN m
    ELSE StripPass(applyLoopSubdivision(SubdivideN(m, n - 1), Garbage1))

\* C1: on a loaded, well-formed base mesh the current mesh is, in every state
\* reached by setSubdivisionLevel and toggleSmooth calls, the base mesh
\* subdivided subdivisionLevel times, whatever levels were visited before.
C1_CurrentIsFunctionOfBaseAndLevel ==
    (loaded /\ ~crashed /\ WellFormed(BaseMesh(Self)))
        => SmoothMesh(Self) = SubdivideN(BaseMesh(Self), subdivisionLevel)

\* the level was lowered from 2 to 1: reset to the base mesh, then one pass
C1_Witness ==
    /\ loaded /\ ~crashed /\ WellFormed(BaseMesh(Self)) /\ indices # <<>>
    /\ subdivisionLevel = 1
    /\ Len(trace) = 4 /\ trace[1].op = "reset" /\ trace[1].level = 2
    /\ trace[2].op = "pass"

\* C2: after setSubdivisionLevel(0) (or a negative level) on a loaded mesh
\* the current vertices, uvs and indices equal those of the base mesh.
C2_LevelZeroRestoresBase ==
    (loaded /\ ~crashed /\ lastCall.op = "setSubdivisionLevel" /\ lastCall.arg <= 0)
        => /\ subdivisionLevel = 0
           /\ smoothVertices = vertices
           /\ smoothUvs = uvs
           /\ smoothIndices = indices

\* setSubdivisionLevel(0) was called at a level above 0
C2_Witness ==
    /\ loaded /\ ~crashed /\ vertices # <<>>
    /\ lastCall = [op |-> "setSubdivisionLevel", arg |-> 0]
    /\ HasEvent(trace, "reset")
    /\ smoothVertices = vertices

\* C3: a setSubdivisionLevel(n) step taken when subdivisionLevel = max(n, 0)
\* changes neither the level nor the smooth vectors nor numSmoothIndices nor
\* the uploaded buffers, and performs no upload.
C3_SameLevelIsNoOp ==
    [][\A n \in (0 - 1)..MaxLevel :
          (subdivisionLevel = Max(n, 0) /\ SetSubdivisionLevel(n))
              => /\ UNCHANGED <<subdivisionLevel, smoothVars, gpuSmooth>>
                 /\ ~HasEvent(trace', "upload")]_vars

\* the last call was setSubdivisionLevel(n) at level n > 0 and did nothing
C3_Witness ==
    /\ loaded /\ ~crashed
    /\ lastCall.op = "setSubdivisionLevel"
    /\ lastCall.arg = subdivisionLevel /\ subdivisionLevel > 0
    /\ trace = <<>>

\* C4: when a call of setSubdivisionLevel(target), also the one made by
\* toggleSmooth, has returned, subdivisionLevel = max(target, 0), and the
\* passes of the call ran at consecutive levels, the last one at the final
\* level minus one.
C4_LevelReachesClampedTarget ==
    LET p == Passes(trace)
    IN  ~crashed =>
        /\ lastCall.op = "setSubdivisionLevel"
               => subdivisionLevel = Max(lastCall.arg, 0)
        /\ (lastCall.op = "toggleSmooth" /\ trace # <<>>)
               => subdivisionLevel = targetSubdivisionLevel
        /\ \A i \in 1..Len(p) : p[i].level = subdivisionLevel - Len(p) + i - 1
        /\ HasEvent(trace, "reset") => Len(p) = subdivisionLevel

\* a negative target given at level 2
C4_Witness ==
    /\ ~crashed /\ loaded
    /\ lastCall = [op |-> "setSubdivisionLevel", arg |-> 0 - 1]
    /\ subdivisionLevel = 0
    /\ trace # <<>> /\ trace[1].op = "reset" /\ trace[1].level = 2

\* C5: no step of any operation changes the base mesh's vertices, uvs,
\* normals or indices.
C5_BaseMeshNeverModified ==
    [][UNCHANGED <<vertices, uvs, normals, indices>>]_vars

\* every operation has acted on the quad, which was lowered to level 1
C5_Witness ==
    /\ loaded /\ ~crashed
    /\ vertices = Quad.vertices /\ indices = Quad.indices
    /\ subdivisionLevel = 1 /\ HasEvent(trace, "reset")
    /\ showSmooth /\ showWireframe /\ ~showTexture /\ modelMatrix # <<>>

\* ---- one pass, counted
Sides(inds, t) ==
    {{inds[3 * t - 2], inds[3 * t - 1]}, {inds[3 * t - 1], inds[3 * t]},
     {inds[3 * t], inds[3 * t - 2]}}
UnorderedEdges(inds) == UNION {Sides(inds, t) : t \in 1..(Len(inds) \div 3)}
\* the midpoint index the output holds for each side of input triangle t
SideMidpoints(inds, out, t) ==
    {<<{inds[3 * t - 2], inds[3 * t - 1]}, out[12 * t - 10]>>,
     <<{inds[3 * t - 1], inds[3 * t]}, out[12 * t - 7]>>,
     <<{inds[3 * t], inds[3 * t - 2]}, out[12 * t - 9]>>}

\* C6: a pass on V vertices, T triangles and E distinct unordered edges gives
\* 4T triangles, V + E vertices and uvs, and the new vertices are the indices
\* V .. V+E-1, one per edge; tetrahedron -> 10 / 16, quad -> 9 / 8.
C6_PassCounts ==
    passOut.ran =>
        LET V == Len(passIn.vertices)
            T == Len(passIn.indices) \div 3
            E == Cardinality(UnorderedEdges(passIn.indices))
            mids == UNION {SideMidpoints(passIn.indices, passOut.indices, t) :
                              t \in 1..T}
        IN  /\ ~passOut.threw
            /\ Len(passOut.indices) = 12 * T
            /\ Len(passOut.vertices) = V + E
            /\ Len(passOut.uvs) = V + E
            /\ {p[2] : p \in mids} = V..(V + E - 1)
            /\ \A p, q \in mids : (p[1] = q[1]) <=> (p[2] = q[2])
            /\ passIn = Tetra =>
                   Len(passOut.vertices) = 10 /\ Len(passOut.indices) = 3 * 16
            /\ passIn = Quad =>
                   Len(passOut.vertices) = 9 /\ Len(passOut.indices) = 3 * 8

C6_Witness ==
    /\ passOut.ran /\ passIn = Tetra
    /\ Len(passOut.vertices) = 10 /\ Len(passOut.indices) = 48

\* C7: no subdivision pass ever runs on a mesh with an index past the vertex
\* array or with vertex and uv arrays of different length.
C7_NoPassOnMalformedMesh ==
    \A i \in 1..Len(trace) : trace[i].op = "pass" => trace[i].valid

\* ---- normals with the zero vector special-cased
GuardedNormalize(v) == IF VIsZero(v) THEN v ELSE Normalize(v)
GuardedFaceNormals(verts, inds) ==
    Vector([t \in 1..(Len(inds) \div 3) |->
        GuardedNormalize(Cross(VSub(verts[inds[3 * t - 1] + 1], verts[inds[3 * t - 2] + 1]),
                               VSub(verts[inds[3 * t] + 1], verts[inds[3 * t - 2] + 1])))])
GuardedNormalizeAll(norms) ==
    Vector([q \in 1..Len(norms) |-> GuardedNormalize(norms[q])])
GuardedNormals(verts, inds) ==
    GuardedNormalizeAll(
        AccumulateNormals(GuardedFaceNormals(verts, inds), inds, Len(verts)))

\* C8: after a recalculation the normals are those obtained when a zero
\* cross product and a zero accumulated normal are left as the zero vector.
C8_ZeroVectorNeverNormalized ==
    (HasEvent(trace, "normals") /\ ~crashed /\ IndexValid(SmoothMesh(Self)))
        => smoothNormals = GuardedNormals(smoothVertices, smoothIndices)

\* ---- the comparator on every Edge with both ends in 0..MaxEdgeIdx
Rev(e) == <<e[2], e[1]>>
Edges == {<<a, b>> : a \in 0..MaxEdgeIdx, b \in 0..MaxEdgeIdx}
StrictWeakOrder ==
    /\ \A a \in Edges : ~EdgeLess(a, a) /\ EdgeEquiv(a, Rev(a))
    /\ \A a, b \in Edges :
          /\ EdgeLess(a, b) => ~EdgeLess(b, a)
          /\ EdgeEquiv(a, b) <=> ({a[1], a[2]} = {b[1], b[2]})
          /\ EdgeLess(a, b) \/ EdgeLess(b, a) \/ EdgeEquiv(a, b)
    /\ \A a, b, c \in Edges : (EdgeLess(a, b) /\ EdgeLess(b, c)) => EdgeLess(a, c)

\* C9: on all edges operator< is irreflexive, asymmetric, transitive and
\* total up to equivalence, and two edges are equivalent exactly when they
\* are the same unordered pair; the map holds its keys in order, one per
\* unordered pair, and finds each under both orientations.
C9_EdgeKeyOrder ==
    /\ StrictWeakOrder
    /\ \A i, j \in 1..Len(edgeMap) :
          i < j => /\ EdgeLess(edgeMap[i][1], edgeMap[j][1])
                   /\ {edgeMap[i][1][1], edgeMap[i][1][2]} #
                      {edgeMap[j][1][1], edgeMap[j][1][2]}
    /\ \A i \in 1..Len(edgeMap) : MapFind(edgeMap, Rev(edgeMap[i][1])) = i

\* Edge{b, a} with b > a was inserted, then counted again as Edge{a, b}
C9_Witness ==
    /\ Len(edgeMap) = MaxKeys
    /\ \E i \in 1..Len(edgeMap) :
          edgeMap[i][1][1] > edgeMap[i][1][2] /\ edgeMap[i][2] = 2

\* ---- incidence of edges and faces
FaceCount(inds, e) ==
    Cardinality({t \in 1..(Len(inds) \div 3) : e \in Sides(inds, t)})
DistinctCorners(inds) ==
    \A t \in 1..(Len(inds) \div 3) :
        Cardinality({inds[3 * t - 2], inds[3 * t - 1], inds[3 * t]}) = 3
Manifold(inds) == \A e \in UnorderedEdges(inds) : FaceCount(inds, e) \in {1, 2}
Closed(inds) == \A e \in UnorderedEdges(inds) : FaceCount(inds, e) = 2
NoRepeatedFace(inds) ==
    \A t, u \in 1..(Len(inds) \div 3) :
        t # u => {inds[3 * t - 2], inds[3 * t - 1], inds[3 * t]} #
                 {inds[3 * u - 2], inds[3 * u - 1], inds[3 * u]}

\* C10 as stated: triangles with three distinct vertices and every edge on 1
\* or 2 faces give an output with every edge on 1 or 2 faces, closed if the
\* input is closed.
C10_ManifoldPreserved ==
    (passOut.ran /\ DistinctCorners(passIn.indices) /\ Manifold(passIn.indices))
        => /\ Manifold(passOut.indices)
           /\ Closed(passIn.indices) => Closed(passOut.indices)

\* C10 amended: the same, for inputs in which no two triangles have the same
\* three vertices.
C10_ManifoldPreservedNoRepeatedFace ==
    (passOut.ran /\ DistinctCorners(passIn.indices) /\ Manifold(passIn.indices)
        /\ NoRepeatedFace(passIn.indices))
        => /\ Manifold(passOut.indices)
           /\ Closed(passIn.indices) => Closed(passOut.indices)

\* the closed tetrahedron was subdivided
C10_Witness ==
    /\ passOut.ran /\ passIn = Tetra
    /\ Closed(passIn.indices) /\ Closed(passOut.indices)
    /\ Len(passOut.indices) = 48

\* C11: a call that changed the level recalculated the normals exactly once,
\* after its last pass and directly before the upload that ends the call;
\* a call that lowered the level to 0 leaves the recomputed normals of the
\* base mesh, not a copy of the loaded ones.
C11_NormalsOnceAfterLastPass ==
    (~crashed /\ trace # <<>>) =>
        /\ Len(trace) >= 2
        /\ trace[Len(trace)].op = "upload"
        /\ trace[Len(trace) - 1].op = "normals"
        /\ \A i \in 1..(Len(trace) - 2) : trace[i].op \in {"reset", "pass"}
        /\ (loaded /\ WellFormed(BaseMesh(Self)) /\ subdivisionLevel = 0)
               => smoothNormals = calculateNormals(vertices, indices, Zero3)

\* toggleSmooth ran two passes, then the normals, then the upload
C11_Witness ==
    /\ ~crashed /\ loaded /\ lastCall.op = "toggleSmooth"
    /\ Len(trace) = 4
    /\ trace[1].op = "pass" /\ trace[2].op = "pass"
    /\ trace[3].op = "normals" /\ trace[4].op = "upload"

\* ---- normals from area-weighted face vectors
CrossProducts(verts, inds) ==
    Vector([t \in 1..(Len(inds) \div 3) |->
        Cross(VSub(verts[inds[3 * t - 1] + 1], verts[inds[3 * t - 2] + 1]),
              VSub(verts[inds[3 * t] + 1], verts[inds[3 * t - 2] + 1]))])
AreaWeightedNormals(verts, inds) ==
    NormalizeAll(AccumulateNormals(CrossProducts(verts, inds), inds, Len(verts)))

\* C12: the normals calculateNormals gives are the normalised per-vertex
\* sums of the unnormalised cross products (v1 - v0) x (v2 - v0) of the
\* triangles at the vertex.
C12_AreaWeightedContribution ==
    passNormals.ran
        => passNormals.normals = AreaWeightedNormals(passIn.vertices, passIn.indices)

\* C13: when every index of the base mesh addresses a vertex and there is one
\* uv per vertex, the current mesh has a whole number of triangles, one uv
\* per vertex and only indices that address a vertex, and no pass and no
\* normal recalculation of the last call read past the end of a vector.
C13_IndexValidityPreserved ==
    (~crashed /\ WellFormed(BaseMesh(Self)))
        => /\ Len(smoothIndices) % 3 = 0
           /\ Len(smoothUvs) = Len(smoothVertices)
           /\ IndexValid(SmoothMesh(Self))
           /\ \A i \in 1..Len(trace) : trace[i].valid

\* the quad after two passes: 32 triangles on 25 vertices
C13_Witness ==
    /\ ~crashed /\ loaded /\ WellFormed(BaseMesh(Self))
    /\ indices = Quad.indices /\ subdivisionLevel = 2
    /\ Len(smoothIndices) = 96 /\ Len(smoothVertices) = 25
    /\ HasEvent(trace, "pass")

\* ---- the four triangles of input triangle t as the output holds them
Emitted(out, t) == SubSeq(out, 12 * t - 11, 12 * t)
FourTriangles(v0, v1, v2, m01, m12, m20) ==
    <<v0, m01, m20>> \o <<v1, m12, m01>> \o <<v2, m20, m12>> \o <<m01, m12, m20>>

\* C14: the pass never throws; the t-th group of four output triangles is
\* (v0,m01,m20), (v1,m12,m01), (v2,m20,m12), (m01,m12,m20) for the t-th input
\* triangle (v0,v1,v2); the midpoint indices are new indices, the same for
\* the same unordered edge and different for different edges.
C14_FourTrianglesPerFace ==
    passOut.ran =>
        /\ ~passOut.threw
        /\ Len(passOut.indices) = 4 * Len(passIn.indices)
        /\ \A t \in 1..(Len(passIn.indices) \div 3) :
              /\ Emitted(passOut.indices, t) =
                     FourTriangles(passIn.indices[3 * t - 2], passIn.indices[3 * t - 1],
                                   passIn.indices[3 * t],
                                   passOut.indices[12 * t - 10],
                                   passOut.indices[12 * t - 7],
                                   passOut.indices[12 * t - 9])
              /\ \A p \in SideMidpoints(passIn.indices, passOut.indices, t) :
                    /\ p[2] >= Len(passIn.vertices)
                    /\ p[2] < Len(passOut.vertices)
                    /\ \A u \in 1..(Len(passIn.indices) \div 3) :
                          \A q \in SideMidpoints(passIn.indices, passOut.indices, u) :
                              (p[1] = q[1]) <=> (p[2] = q[2])

\* the quad: its diagonal is walked as (2,0) by the first triangle and as
\* (0,2) by the second, and both get the same midpoint
C14_Witness ==
    /\ passOut.ran /\ passIn = Quad
    /\ passOut.indices[12 * 1 - 9] = passOut.indices[12 * 2 - 10]
    /\ passOut.indices[1] = 0 /\ passOut.indices[13] = 0

\* ---- the edge rules, stated on unordered edges
\* the positions q of the index vector whose side (q, next corner) is edge e
NextCorner(q) == IF q % 3 = 0 THEN q - 2 ELSE q + 1
ThirdCorner(q) == NextCorner(NextCorner(q))
SidesAt(inds, e) == {q \in 1..Len(inds) : {inds[q], inds[NextCorner(q)]} = e}
LowEnd(e) == CHOOSE a \in e : \A b \in e : a <= b
HighEnd(e) == CHOOSE a \in e : \A b \in e : b <= a
EndSum(vec, e) == VAdd(vec[LowEnd(e) + 1], vec[HighEnd(e) + 1])
OppositeSum(vec, inds, sides) ==
    VAdd(vec[inds[ThirdCorner(LowEnd(sides))] + 1],
         vec[inds[ThirdCorner(HighEnd(sides))] + 1])
\* the value the rules give the new vertex of edge e
EdgePoint(vec, inds, e) ==
    IF Cardinality(SidesAt(inds, e)) = 2
    THEN VAdd(VScale(W38, EndSum(vec, e)),
              VScale(W18, OppositeSum(vec, inds, SidesAt(inds, e))))
    ELSE VScale(Half, EndSum(vec, e))

\* C15: every unordered edge has one new vertex.  With the edge counted once
\* for every triangle side that lies on it, count 2 gives
\* 3/8 (P(v0) + P(v1)) + 1/8 (P(o1) + P(o2)), and count 1 and every other
\* count give 1/2 (P(v0) + P(v1)), without a throw; uvs follow the same
\* rule.  The quad has four edges of count 1 and the diagonal of count 2.
C15_EdgeRules ==
    passOut.ran =>
        /\ ~passOut.threw
        /\ Len(passOut.vertices) =
               Len(passIn.vertices) + Cardinality(UnorderedEdges(passIn.indices))
        /\ \A t \in 1..(Len(passIn.indices) \div 3) :
              \A p \in SideMidpoints(passIn.indices, passOut.indices, t) :
                  /\ passOut.vertices[p[2] + 1] =
                         EdgePoint(passIn.vertices, passIn.indices, p[1])
                  /\ passOut.uvs[p[2] + 1] =
                         EdgePoint(passIn.uvs, passIn.indices, p[1])
        /\ passIn = Quad =>
              /\ \A e \in {{0, 1}, {1, 2}, {2, 3}, {3, 0}} :
                    Cardinality(SidesAt(passIn.indices, e)) = 1
              /\ Cardinality(SidesAt(passIn.indices, {0, 2})) = 2

\* the fan: the edge 0-1 lies on three triangles and gets the average of its
\* ends, the edge 0-2 lies on one
C15_Witness ==
    /\ passOut.ran /\ passIn = Fan3 /\ ~passOut.threw
    /\ Cardinality(SidesAt(passIn.indices, {0, 1})) = 3
    /\ passOut.vertices[passOut.indices[2] + 1] = Vec3(1, 0, 0)

\* ---- the vertex rules, stated on the input triangle list
NeighbourSet(inds, i) ==
    {n \in {inds[q] : q \in 1..Len(inds)} : SidesAt(inds, {i, n}) # {}}
BoundaryNeighbours(inds, i) ==
    {n \in NeighbourSet(inds, i) : Cardinality(SidesAt(inds, {i, n})) = 1}
NeighbourSum(vec, zero, nb) ==
    VSum(Vector([j \in 1..Len(nb) |-> vec[nb[j] + 1]]), zero)
InteriorPoint(vec, zero, i, nb, beta) ==
    VAdd(VScale(SSub(One, SMul(Int2F(Len(nb)), beta)), vec[i + 1]),
         VScale(beta, NeighbourSum(vec, zero, nb)))
BoundaryPoint(vec, i, bn) ==
    IF Cardinality(bn) = 2
    THEN VAdd(VAdd(VScale(W18, vec[LowEnd(bn) + 1]), VScale(W68, vec[i + 1])),
              VScale(W18, vec[HighEnd(bn) + 1]))
    ELSE vec[i + 1]
\* the value the rules give original vertex i
VertexPoint(vec, zero, inds, i) ==
    IF BoundaryNeighbours(inds, i) # {}
    THEN BoundaryPoint(vec, i, BoundaryNeighbours(inds, i))
    ELSE InteriorPoint(vec, zero, i, SetToSeq(NeighbourSet(inds, i)),
                       Beta(Cardinality(NeighbourSet(inds, i))))

\* C16: entry i of the next vertices and uvs is computed from the previous
\* vertices and uvs alone: 1/8 n1 + 6/8 i + 1/8 n2 when i has an edge on one
\* triangle and exactly two neighbours over such edges, the unchanged value
\* when it has such an edge and another number of such neighbours, and
\* otherwise (1 - k beta) P(i) + beta (sum of the k neighbours), with
\* beta = 3/16 for k = 3.
C16_VertexRules ==
    passOut.ran =>
        /\ Beta(3) = <<3, 4>>
        /\ \A i \in 0..(Len(passIn.vertices) - 1) :
              /\ passOut.vertices[i + 1] =
                     VertexPoint(passIn.vertices, Zero3, passIn.indices, i)
              /\ passOut.uvs[i + 1] =
                     VertexPoint(passIn.uvs, Zero2, passIn.indices, i)

\* the quad: vertex 0 has the boundary neighbours 1 and 3 and moves to
\* (1/8, 1/8, 0); vertex 1 has the boundary neighbours 0 and 2
C16_Witness ==
    /\ passOut.ran /\ passIn = Quad
    /\ BoundaryNeighbours(passIn.indices, 0) = {1, 3}
    /\ passOut.vertices[1] = <<<<1, 3>>, <<1, 3>>, <<0, 0>>>>

\* ---- the vertices Step 2 sends to the interior rule, with their valence k
InteriorValences(inds, n, adj) ==
    {<<i, Cardinality(Neighbors(adj.vertexNeighbors, i))>> :
        i \in (0..(n - 1)) \
              BoundaryVertices(BoundaryEdges(adj.edgeFaceCount))}
EdgeCounts(adj) == {adj.edgeFaceCount[p][2] : p \in 1..Len(adj.edgeFaceCount)}

\* C17: in a pass on a mesh with valid indices whose edges all lie on 1 or 2
\* faces, every vertex that takes the interior rule has valence k >= 3.
C17_InteriorValenceAtLeastThree ==
    (passOut.ran /\ IndexValid(passIn)
        /\ EdgeCounts(BuildAdjacency(passIn.indices)) \subseteq {1, 2})
        => \A v \in InteriorValences(passIn.indices, Len(passIn.vertices),
                                     BuildAdjacency(passIn.indices)) : v[2] >= 3

\* ---- the smooth vectors as setupSmoothBuffers hands them to the buffers
CurrentBuffers ==
    [vertices |-> smoothVertices, uvs |-> smoothUvs,
     normals |-> smoothNormals, indices |-> smoothIndices]
ChangesMesh(e) == e.op \in {"reset", "pass", "normals"}

\* C18: after a successful construction and after every public operation
\* that returned, numSmoothIndices is the size of smoothIndices and the
\* uploaded buffers hold the current smooth vectors; a call that changed the
\* current mesh ends with an upload that no change follows.
C18_BuffersReflectMesh ==
    (loaded /\ ~crashed)
        => /\ numSmoothIndices = Len(smoothIndices)
           /\ gpuSmooth = CurrentBuffers
           /\ (\E p \in 1..Len(trace) : ChangesMesh(trace[p]))
                  => trace[Len(trace)].op = "upload"

\* setSubdivisionLevel(1) turned the two triangles of the quad into eight
C18_Witness ==
    /\ loaded /\ ~crashed
    /\ lastCall = [op |-> "setSubdivisionLevel", arg |-> 1]
    /\ HasEvent(trace, "pass")
    /\ Len(indices) = 6 /\ Len(smoothIndices) = 24
    /\ numSmoothIndices = 24
    /\ gpuSmooth.indices = smoothIndices

\* C19: a toggleSmooth step that returns flips showSmooth and never lowers
\* subdivisionLevel; turning smooth on below targetSubdivisionLevel ends at
\* exactly that level; turning it on at that level or above, or turning it
\* off, leaves the level, the smooth vectors and the buffers unchanged.
C19_ToggleSmooth ==
    [][(/\ lastCall'.op = "toggleSmooth"
        /\ UNCHANGED <<showWireframe, showTexture, modelMatrix>>
        /\ ~crashed'
        /\ ToggleSmooth)
          => /\ showSmooth' = ~showSmooth
             /\ subdivisionLevel' >= subdivisionLevel
             /\ (~showSmooth /\ subdivisionLevel < targetSubdivisionLevel)
                    => subdivisionLevel' = targetSubdivisionLevel
             /\ (showSmooth \/ subdivisionLevel >= targetSubdivisionLevel)
                    => /\ UNCHANGED <<subdivisionLevel, smoothVars, gpuSmooth>>
                       /\ trace' = <<>>]_vars

\* toggleSmooth turned smooth on at level 1 and ran the one missing pass
C19_Witness ==
    /\ loaded /\ ~crashed
    /\ lastCall.op = "toggleSmooth"
    /\ showSmooth /\ subdivisionLevel = targetSubdivisionLevel
    /\ Len(trace) = 3
    /\ trace[1] = [op |-> "pass", level |-> 1, valid |-> TRUE]

====
